---- MODULE Spec2Model ----
(***************************************************************************)
(* Model of tadashi's C side (ctadashi): the session of SCoP records, the  *)
(* two-slot transaction (pre_transform / post_transform / rollback), the   *)
(* transformation primitives of transformations.c composed from the isl    *)
(* schedule-node operations they call, the legality check of tadashi.c,    *)
(* and code emission.                                                       *)
(*                                                                          *)
(* A schedule tree is a record; an isl_schedule_node is a cursor           *)
(* [tree, path]; a failed isl call yields the NULL cursor (isl frees the   *)
(* node it took and returns NULL, and every later call on NULL returns     *)
(* NULL).  Sets and piecewise affine functions are modelled extensionally  *)
(* over the finitely many statement instances of a SCoP.                   *)
(***************************************************************************)
EXTENDS Integers, Sequences, FiniteSets, TLC

\* The driver makes at most this many record-growing calls in a session
\* (transformations, set_loop_opt, get_expr and get_loop_signature): the
\* trees grow with every tile, fuse and mark, the schedules with every shift,
\* the stored strings with every text asked for.
MaxCalls == 2

\* The arguments the driver passes.
ChildIdx == 0 .. 2
TileSizes == {2}
ShiftVals == {1}
LoopOpts == 0 .. 1
LoopPos == 0 .. 1

----------------------------------------------------------------------------
(* Schedule trees *)

NoSched == [x \in {} |-> 0]

Node(t, s, f, id, lt, ch) ==
  [type |-> t, sched |-> s, filter |-> f, id |-> id, loop_type |-> lt,
   children |-> ch]

Leaf == Node("leaf", NoSched, {}, "", 0, <<>>)

ErrorNode == Node("error", NoSched, {}, "", 0, <<>>)

Band(s, id, child) == Node("band", s, {}, id, 0, <<child>>)

Filter(f, child) == Node("filter", NoSched, f, "", 0, <<child>>)

Sequence(ch) == Node("sequence", NoSched, {}, "", 0, ch)

Domain(d, child) == Node("domain", NoSched, d, "", 0, <<child>>)

Mark(id, child) == Node("mark", NoSched, {}, id, 0, <<child>>)

\* A node without a children list has one implicit leaf child, whatever the
\* position asked for.
ChildOf(n, k) == IF n.children = <<Leaf>> THEN Leaf ELSE n.children[k + 1]

RECURSIVE NodeAt(_, _)
NodeAt(t, p) == IF p = <<>> THEN t ELSE NodeAt(ChildOf(t, Head(p)), Tail(p))

RECURSIVE ReplaceAt(_, _, _)
ReplaceAt(t, p, n) ==
  IF p = <<>> THEN n
  ELSE [t EXCEPT !.children[Head(p) + 1] = ReplaceAt(@, Tail(p), n)]

----------------------------------------------------------------------------
(* isl_schedule_node: cursors *)

NULL == [tree |-> ErrorNode, path |-> <<>>]

IsNull(c) == c.tree.type = "error"

Cursor(t, p) == [tree |-> t, path |-> p]

Focus(c) == NodeAt(c.tree, c.path)

ParentPath(p) == SubSeq(p, 1, Len(p) - 1)

isl_schedule_node_get_type(c) == IF IsNull(c) THEN "error" ELSE Focus(c).type

isl_schedule_node_n_children(c) ==
  IF IsNull(c) THEN -1
  ELSE IF Focus(c).type = "leaf" THEN 0 ELSE Len(Focus(c).children)

isl_schedule_node_get_parent_type(c) == NodeAt(c.tree, ParentPath(c.path)).type

isl_schedule_node_root(c) == IF IsNull(c) THEN NULL ELSE Cursor(c.tree, <<>>)

isl_schedule_node_parent(c) ==
  IF IsNull(c) \/ c.path = <<>> THEN NULL
  ELSE Cursor(c.tree, ParentPath(c.path))

isl_schedule_node_child(c, k) ==
  IF IsNull(c) THEN NULL
  ELSE IF Focus(c).type = "leaf" THEN NULL
  ELSE IF Focus(c).children = <<Leaf>> \/ (0 <= k /\ k < Len(Focus(c).children))
       THEN Cursor(c.tree, Append(c.path, k))
  ELSE NULL

isl_schedule_node_first_child(c) == isl_schedule_node_child(c, 0)

\* Replace the subtree at the focus, keeping the position.
isl_schedule_node_graft_tree(c, n) == Cursor(ReplaceAt(c.tree, c.path, n), c.path)

isl_schedule_node_delete(c) ==
  IF IsNull(c) THEN NULL
  ELSE IF c.path = <<>> THEN NULL
  ELSE IF isl_schedule_node_n_children(c) # 1 THEN NULL
  ELSE IF isl_schedule_node_get_parent_type(c) \in {"sequence", "set"} THEN NULL
  ELSE isl_schedule_node_graft_tree(c, ChildOf(Focus(c), 0))

isl_schedule_node_check_insert(c) ==
  /\ ~IsNull(c)
  /\ c.path # <<>>
  /\ isl_schedule_node_get_parent_type(c) \notin {"sequence", "set"}

----------------------------------------------------------------------------
(* isl_union_set, isl_union_set_list, isl_multi_union_pw_aff.  A failed    *)
(* call yields a value with ok = FALSE (the NULL pointer).                 *)

USet(s) == [ok |-> TRUE, set |-> s]

NullUSet == [ok |-> FALSE, set |-> {}]

UList(items) == [ok |-> TRUE, items |-> items]

NullUList == [ok |-> FALSE, items |-> <<>>]

Mupa(id, fn) == [ok |-> TRUE, id |-> id, fn |-> fn]

NullMupa == [ok |-> FALSE, id |-> "", fn |-> NoSched]

isl_union_set_union(a, b) ==
  IF a.ok /\ b.ok THEN USet(a.set \cup b.set) ELSE NullUSet

isl_union_set_list_insert(l, pos, f) ==
  IF ~l.ok \/ ~f.ok \/ pos > Len(l.items) THEN NullUList
  ELSE UList(SubSeq(l.items, 1, pos) \o <<f.set>>
             \o SubSeq(l.items, pos + 1, Len(l.items)))

isl_schedule_node_filter_get_filter(c) ==
  IF isl_schedule_node_get_type(c) = "filter" THEN USet(Focus(c).filter)
  ELSE NullUSet

isl_schedule_node_band_get_partial_schedule(c) ==
  IF isl_schedule_node_get_type(c) = "band"
  THEN Mupa(Focus(c).id, Focus(c).sched)
  ELSE NullMupa

isl_multi_union_pw_aff_reset_tuple_id(m) ==
  IF m.ok THEN Mupa("", m.fn) ELSE NullMupa

isl_multi_union_pw_aff_intersect_domain(m, f) ==
  IF m.ok /\ f.ok
  THEN Mupa(m.id, [x \in (DOMAIN m.fn) \cap f.set |-> m.fn[x]])
  ELSE NullMupa

\* Defined on the union of the two domains: the sum where both are defined.
isl_multi_union_pw_aff_union_add(a, b) ==
  IF a.ok /\ b.ok /\ a.id = b.id
  THEN Mupa(a.id, [x \in (DOMAIN a.fn) \cup (DOMAIN b.fn) |->
                     IF x \in DOMAIN a.fn
                     THEN IF x \in DOMAIN b.fn THEN a.fn[x] + b.fn[x] ELSE a.fn[x]
                     ELSE b.fn[x]])
  ELSE NullMupa

\* isl_multi_union_pw_aff_get_tuple_id fails on a space without tuple id.
HasTupleId(m) == m.ok /\ m.id # ""

----------------------------------------------------------------------------
(* isl_schedule_node: tree rewrites *)

\* isl_schedule_node_gist: simplify a subtree within the instances "ctx".
\* Children of a sequence whose filter becomes empty are dropped; a sequence
\* left with one child is replaced by that child's subtree.
RECURSIVE Gist(_, _)
Gist(n, ctx) ==
  CASE n.type = "leaf" -> n
    [] n.type = "band" ->
         [n EXCEPT !.sched = [x \in (DOMAIN n.sched) \cap ctx |-> n.sched[x]],
                   !.children = <<Gist(n.children[1], ctx)>>]
    [] n.type = "filter" ->
         [n EXCEPT !.filter = n.filter \cap ctx,
                   !.children = <<Gist(n.children[1], n.filter \cap ctx)>>]
    [] n.type \in {"sequence", "set"} ->
         LET kids == [i \in 1 .. Len(n.children) |-> Gist(n.children[i], ctx)]
             kept == SelectSeq(kids, LAMBDA k : k.filter # {})
         IN IF Len(kept) = 1 THEN kept[1].children[1]
            ELSE IF Len(kept) = 0 THEN Filter({}, Leaf)
            ELSE [n EXCEPT !.children = kept]
    [] OTHER -> [n EXCEPT !.children = <<Gist(n.children[1], ctx)>>]

isl_schedule_node_insert_sequence(c, filters) ==
  IF ~isl_schedule_node_check_insert(c) \/ ~filters.ok THEN NULL
  ELSE isl_schedule_node_graft_tree(c,
         Sequence([i \in 1 .. Len(filters.items) |->
                     Filter(filters.items[i], Gist(Focus(c), filters.items[i]))]))

isl_schedule_node_insert_partial_schedule(c, m) ==
  IF ~isl_schedule_node_check_insert(c) \/ ~m.ok THEN NULL
  ELSE isl_schedule_node_graft_tree(c, Band(m.fn, m.id, Focus(c)))

isl_schedule_node_insert_mark(c, id) ==
  IF ~isl_schedule_node_check_insert(c) THEN NULL
  ELSE isl_schedule_node_graft_tree(c, Mark(id, Focus(c)))

\* a tiling whose tile loops are not scaled
isl_schedule_node_band_tile_unscaled(c, size) ==
  IF isl_schedule_node_get_type(c) # "band" THEN NULL
  ELSE LET b == Focus(c)
           point == [b EXCEPT !.sched =
                       [x \in DOMAIN b.sched |-> b.sched[x] - size * (b.sched[x] \div size)]]
           tile == [b EXCEPT !.sched = [x \in DOMAIN b.sched |-> b.sched[x] \div size],
                             !.children = <<point>>]
       IN isl_schedule_node_graft_tree(c, tile)

\* Default isl options: tile loops are scaled (outer = size * floor(d / size))
\* and point loops are shifted (inner = d - size * floor(d / size)).
isl_schedule_node_band_tile(c, size) ==
  IF isl_schedule_node_get_type(c) # "band" THEN NULL
  ELSE LET b == Focus(c)
           point == [b EXCEPT !.sched =
                       [x \in DOMAIN b.sched |-> b.sched[x] - size * (b.sched[x] \div size)]]
           tile == [b EXCEPT !.sched =
                      [x \in DOMAIN b.sched |-> size * (b.sched[x] \div size)],
                    !.children = <<point>>]
       IN isl_schedule_node_graft_tree(c, tile)

isl_schedule_node_band_shift(c, shift) ==
  IF isl_schedule_node_get_type(c) # "band" \/ ~shift.ok THEN NULL
  ELSE IF shift.id # Focus(c).id THEN NULL
  ELSE isl_schedule_node_graft_tree(c,
         [Focus(c) EXCEPT !.sched =
            [x \in (DOMAIN Focus(c).sched) \cap (DOMAIN shift.fn) |->
               Focus(c).sched[x] + shift.fn[x]]])

isl_schedule_node_band_member_set_ast_loop_type(c, pos, type) ==
  IF isl_schedule_node_get_type(c) # "band" THEN NULL
  ELSE IF pos # 0 THEN NULL
  ELSE isl_schedule_node_graft_tree(c, [Focus(c) EXCEPT !.loop_type = type])

----------------------------------------------------------------------------
(* transformations.c *)

\* Statement instances are <<statement, i, j>>.  isl lists the sets of a union
\* set one per statement space; the statements are listed in this order.
StmtOrder == <<"S", "T", "U", "V">>

isl_union_set_get_set_list(dom) ==
  LET present == SelectSeq(StmtOrder, LAMBDA st : \E x \in dom : x[1] = st)
  IN [k \in 1 .. Len(present) |-> {x \in dom : x[1] = present[k]}]

tadashi_tile(node, tile_size) ==
  \* isl_schedule_node_band_get_space fails on a node that is not a band and
  \* the tile call then gets NULL sizes.
  isl_schedule_node_band_tile(node, tile_size)

tadashi_interchange(node) ==
  LET mupa == isl_schedule_node_band_get_partial_schedule(node)
      n1 == isl_schedule_node_delete(node)
      n2 == isl_schedule_node_first_child(n1)
  IN isl_schedule_node_insert_partial_schedule(n2, mupa)

\* Returns [node, filters]: the helper moves *node down and up again.
RECURSIVE FuseFiltersLoop(_, _, _, _, _, _, _)
FuseFiltersLoop(node, filters, filter, idx1, idx2, i, size) ==
  IF i >= size THEN [node |-> node, filters |-> filters]
  ELSE LET at == IF i >= idx2 THEN isl_schedule_node_child(node, i + 1)
                 ELSE isl_schedule_node_child(node, i)
           f == IF i >= idx2 THEN isl_schedule_node_filter_get_filter(at)
                ELSE IF i = idx1 THEN filter
                ELSE isl_schedule_node_filter_get_filter(at)
           back == IF i < idx2 /\ i = idx1 THEN node
                   ELSE isl_schedule_node_parent(at)
       IN FuseFiltersLoop(back, isl_union_set_list_insert(filters, i, f),
                          filter, idx1, idx2, i + 1, size)

_fuse_get_filters(node, filter, idx1, idx2) ==
  LET size == isl_schedule_node_n_children(node) - 1
      filters == IF IsNull(node) THEN NullUList ELSE UList(<<>>)
  IN FuseFiltersLoop(node, filters, filter, idx1, idx2, 0, size)

_fuse_insert_outer_shorter_sequence(node, idx1, idx2) ==
  LET c1 == isl_schedule_node_child(node, idx1)
      f1 == isl_schedule_node_filter_get_filter(c1)
      p1 == isl_schedule_node_parent(c1)
      c2 == isl_schedule_node_child(p1, idx2)
      filter == isl_union_set_union(f1, isl_schedule_node_filter_get_filter(c2))
      p2 == isl_schedule_node_parent(c2)
      r == _fuse_get_filters(p2, filter, idx1, idx2)
  IN isl_schedule_node_insert_sequence(r.node, r.filters)

\* Returns [node, filter, mupa, filters].
_fuse_get_filter_and_mupa(node, idx, filters) ==
  LET c == isl_schedule_node_child(node, idx)
      filter == isl_schedule_node_filter_get_filter(c)
      b == isl_schedule_node_first_child(c)
      m0 == isl_schedule_node_band_get_partial_schedule(b)
      m1 == isl_multi_union_pw_aff_reset_tuple_id(m0)
      m2 == isl_multi_union_pw_aff_intersect_domain(m1, filter)
      up == isl_schedule_node_parent(isl_schedule_node_parent(b))
      pos == Len(filters.items)
  IN [node |-> up, filter |-> filter, mupa |-> m2,
      filters |-> isl_union_set_list_insert(filters, pos, filter)]

tadashi_fuse(node, idx1, idx2) ==
  LET n1 == _fuse_insert_outer_shorter_sequence(node, idx1, idx2)
      n2 == isl_schedule_node_child(n1, idx1)
      n3 == isl_schedule_node_first_child(n2)
      filters == IF IsNull(node) THEN NullUList ELSE UList(<<>>)
      r0 == _fuse_get_filter_and_mupa(n3, idx1, filters)
      r1 == _fuse_get_filter_and_mupa(r0.node, idx2, r0.filters)
      mupa == isl_multi_union_pw_aff_union_add(r0.mupa, r1.mupa)
      n4 == isl_schedule_node_insert_sequence(r1.node, r1.filters)
      n5 == isl_schedule_node_insert_partial_schedule(n4, mupa)
  IN isl_schedule_node_parent(isl_schedule_node_parent(n5))

\* _pa_val: the constant val on the set.
_pa_val(set, val) == [x \in set |-> val]

\* _pa_id: the value of set dimension id_idx on the set (the statement
\* instances have two dimensions; isl_multi_aff_get_at fails past them).
_pa_id(set, id_idx) == [x \in set |-> x[id_idx + 2]]

\* A call through the function pointer fn: the functions are named.
CallPa(fn, set, val) ==
  CASE fn = "_pa_val" -> _pa_val(set, val)
    [] fn = "_pa_id" -> _pa_id(set, val)

\* The shift built by the loop over the pieces: fn on piece idx, 0 elsewhere.
_shift_partial(node, fn, idx, const_val) ==
  LET mupa == isl_schedule_node_band_get_partial_schedule(node)
      pa_domains == isl_union_set_get_set_list(DOMAIN mupa.fn)
      pa(k) == IF idx = k - 1 THEN CallPa(fn, pa_domains[k], const_val)
               ELSE _pa_val(pa_domains[k], 0)
      upa == [x \in DOMAIN mupa.fn |->
                LET k == CHOOSE k \in 1 .. Len(pa_domains) : x \in pa_domains[k]
                IN pa(k)[x]]
      failed == fn = "_pa_id" /\ idx \in 0 .. Len(pa_domains) - 1 /\ const_val \notin 0 .. 1
      shift == IF HasTupleId(mupa) /\ ~failed THEN Mupa(mupa.id, upa) ELSE NullMupa
  IN isl_schedule_node_band_shift(node, shift)

tadashi_partial_shift_val(node, pa_idx, id_idx) ==
  _shift_partial(node, "_pa_val", pa_idx, id_idx)

tadashi_full_shift_var(node, pa_idx, id_idx) ==
  _shift_partial(node, "_pa_id", pa_idx, id_idx)

tadashi_full_shift_val(node, pa_idx, id_idx) ==
  _shift_partial(node, "_pa_val", pa_idx, id_idx)

----------------------------------------------------------------------------
(* tadashi.c: the legality check *)

Max(a, b) == IF a >= b THEN a ELSE b

RECURSIVE SchedDim(_)
RECURSIVE MaxChildDim(_)
MaxChildDim(ch) ==
  IF ch = <<>> THEN 0 ELSE Max(SchedDim(Head(ch)), MaxChildDim(Tail(ch)))

\* Number of schedule dimensions of a subtree.  A sequence with more than one
\* child contributes the child position; shorter children are padded.
SchedDim(n) ==
  CASE n.type = "leaf" -> 0
    [] n.type = "band" -> 1 + SchedDim(n.children[1])
    [] n.type \in {"sequence", "set"} ->
         (IF Len(n.children) > 1 THEN 1 ELSE 0) + MaxChildDim(n.children)
    [] OTHER -> SchedDim(n.children[1])

Pad(t, len) == [k \in 1 .. len |-> IF k <= Len(t) THEN t[k] ELSE 0]

ChildFor(n, x) == CHOOSE k \in 1 .. Len(n.children) : x \in n.children[k].filter

RECURSIVE Scheduled(_, _)
\* Whether the subtree gives instance x a schedule point.
Scheduled(n, x) ==
  CASE n.type = "leaf" -> TRUE
    [] n.type = "band" -> x \in DOMAIN n.sched /\ Scheduled(n.children[1], x)
    [] n.type \in {"sequence", "set"} ->
         \E k \in 1 .. Len(n.children) :
            x \in n.children[k].filter /\ Scheduled(n.children[k], x)
    [] n.type \in {"filter", "domain"} ->
         x \in n.filter /\ Scheduled(n.children[1], x)
    [] OTHER -> Scheduled(n.children[1], x)

RECURSIVE SubtreeSchedule(_, _)
SubtreeSchedule(n, x) ==
  CASE n.type = "leaf" -> <<>>
    [] n.type = "band" -> <<n.sched[x]>> \o SubtreeSchedule(n.children[1], x)
    [] n.type \in {"sequence", "set"} ->
         LET k == ChildFor(n, x)
         IN (IF Len(n.children) > 1 THEN <<k - 1>> ELSE <<>>)
            \o Pad(SubtreeSchedule(n.children[k], x), MaxChildDim(n.children))
    [] OTHER -> SubtreeSchedule(n.children[1], x)

\* An isl_schedule is its tree; the NULL schedule is ErrorNode.
isl_schedule_node_get_schedule(c) == c.tree

NullMap == [ok |-> FALSE, fn |-> NoSched]

isl_schedule_get_map(schedule) ==
  IF schedule.type = "error" THEN NullMap
  ELSE [ok |-> TRUE,
        fn |-> [x \in {y \in schedule.filter : Scheduled(schedule, y)} |->
                  SubtreeSchedule(schedule, x)]]

Delta(a, b) == [k \in 1 .. Len(a) |-> b[k] - a[k]]

\* d is lexicographically smaller than or equal to the zero tuple.
LexLeZero(d) ==
  \/ \A k \in 1 .. Len(d) : d[k] = 0
  \/ \E k \in 1 .. Len(d) : d[k] < 0 /\ \A j \in 1 .. k - 1 : d[j] = 0

isl_bool_true == 1
isl_bool_false == 0
isl_bool_error == -1

isl_union_map_deltas(schedule_map, dep) ==
  {Delta(schedule_map.fn[d[1]], schedule_map.fn[d[2]]) :
     d \in {e \in dep : e[1] \in DOMAIN schedule_map.fn
                        /\ e[2] \in DOMAIN schedule_map.fn}}

\* the check with lex_lt in place of lex_le
check_legality_lt(schedule_map, dep) ==
  IF dep = {} THEN isl_bool_true
  ELSE IF ~schedule_map.ok THEN isl_bool_error
  ELSE LET delta == isl_union_map_deltas(schedule_map, dep)
           lt == {d \in delta : LexLeZero(d) /\ \E k \in 1 .. Len(d) : d[k] # 0}
       IN IF lt = {} THEN isl_bool_true ELSE isl_bool_false

check_legality(schedule_map, dep) ==
  IF dep = {} THEN isl_bool_true
  ELSE IF ~schedule_map.ok THEN isl_bool_error
  ELSE LET delta == isl_union_map_deltas(schedule_map, dep)
           le == {d \in delta : LexLeZero(d)}
       IN IF le = {} THEN isl_bool_true ELSE isl_bool_false

check_schedule_legality(schedule, dep) ==
  check_legality(isl_schedule_get_map(schedule), dep)

\* ctadashi calls the check under the name tadashi_check_legality.
tadashi_check_legality(schedule, dep) == check_schedule_legality(schedule, dep)

----------------------------------------------------------------------------
(* Input programs: what the front-end extracts from a source file.  A      *)
(* pet_scop is its name, its schedule tree, the may-dependences the flow    *)
(* analysis of get_dependencies computes for it, and the isl_ctx its        *)
(* objects live in (0 until pet_transform_C_source extracts it).            *)

Inst(st, i, j) == <<st, i, j>>

\* U: x = 1;   (one statement outside any loop, no dependences)
StmtDomain == {Inst("U", 0, 0)}

StmtScop ==
  [name |-> "stmt", schedule |-> Domain(StmtDomain, Leaf), dep |-> {}, ctx |-> 0]

\* V: y = 2;
Stmt2Domain == {Inst("V", 0, 0)}

Stmt2Scop ==
  [name |-> "stmt2", schedule |-> Domain(Stmt2Domain, Leaf), dep |-> {}, ctx |-> 0]

\* for i, j in 0..1:  S: A[i][j] = A[i-1][j+1]
NestDomain == {Inst("S", i, j) : i \in 0 .. 1, j \in 0 .. 1}

NestScop ==
  [name |-> "nest",
   schedule |-> Domain(NestDomain,
                  Band([x \in NestDomain |-> x[2]], "L_0",
                    Band([x \in NestDomain |-> x[3]], "L_1", Leaf))),
   dep |-> {<<Inst("S", 0, 1), Inst("S", 1, 0)>>},
   ctx |-> 0]

\* for i in 0..1: S: A[i] = ..;   for i in 0..1: T: B[i] = A[i] + A[i+1]
SDomain == {Inst("S", i, 0) : i \in 0 .. 1}
TDomain == {Inst("T", i, 0) : i \in 0 .. 1}

SeqScop ==
  [name |-> "seq",
   schedule |-> Domain(SDomain \cup TDomain,
                  Sequence(<<Filter(SDomain, Band([x \in SDomain |-> x[2]], "L_0", Leaf)),
                             Filter(TDomain, Band([x \in TDomain |-> x[2]], "L_1", Leaf))>>)),
   dep |-> {<<Inst("S", 0, 0), Inst("T", 0, 0)>>,
            <<Inst("S", 1, 0), Inst("T", 0, 0)>>,
            <<Inst("S", 1, 0), Inst("T", 1, 0)>>},
   ctx |-> 0]

\* S: a = ..;   T: b = a;   U: c = ..   each in a loop of one iteration
ThreeScop ==
  [name |-> "three",
   schedule |-> Domain({Inst("S", 0, 0), Inst("T", 0, 0), Inst("U", 0, 0)},
                  Sequence(<<Filter({Inst("S", 0, 0)},
                                    Band([x \in {Inst("S", 0, 0)} |-> x[2]], "L_0", Leaf)),
                             Filter({Inst("T", 0, 0)},
                                    Band([x \in {Inst("T", 0, 0)} |-> x[2]], "L_1", Leaf)),
                             Filter({Inst("U", 0, 0)},
                                    Band([x \in {Inst("U", 0, 0)} |-> x[2]], "L_2", Leaf))>>)),
   dep |-> {<<Inst("S", 0, 0), Inst("T", 0, 0)>>},
   ctx |-> 0]

\* for i in 0..1: { S: A[i] = ..;  T: B[i] = A[i]; }
PairScop ==
  [name |-> "pair",
   schedule |-> Domain(SDomain \cup TDomain,
                  Band([x \in SDomain \cup TDomain |-> x[2]], "L_0",
                    Sequence(<<Filter(SDomain, Leaf), Filter(TDomain, Leaf)>>))),
   dep |-> {<<Inst("S", 0, 0), Inst("T", 0, 0)>>, <<Inst("S", 1, 0), Inst("T", 1, 0)>>},
   ctx |-> 0]

InputFiles == {"nest.c", "seq.c", "two.c"}

\* The SCoPs pet finds in a file (none in empty.c).
ScopsOf(input) ==
  CASE input = "nest.c" -> <<NestScop>>
    [] input = "seq.c" -> <<SeqScop>>
    [] input = "two.c" -> <<StmtScop, Stmt2Scop>>
    [] input = "three.c" -> <<ThreeScop>>
    [] input = "empty.c" -> <<>>
    [] input = "pair.c" -> <<PairScop>>

\* pet_transform_C_source(ctx, input, ...): the SCoPs handed to the callback,
\* one call each.
pet_transform_C_source(ctx, input) ==
  [k \in 1 .. Len(ScopsOf(input)) |-> [ScopsOf(input)[k] EXCEPT !.ctx = ctx]]

pet_scop_get_schedule(scop) == scop.schedule

get_dependencies(scop) == scop.dep

isl_schedule_get_root(schedule) == Cursor(schedule, <<>>)

----------------------------------------------------------------------------
(* ctadashi: the session *)

VARIABLES
  SCOPS_POOL,  \* std::vector<scops_t>; SCOPS_POOL[1] is the C++ SCOPS_POOL[0]
  legal_seen,  \* per SCoP: some transformation on it returned 1 (history)
  ncalls,      \* number of tree-changing calls made so far (history)
  ctxs,        \* the isl_ctx objects allocated so far: TRUE while not freed
  cli          \* the run of the command-line program (tadashi.c: main)

vars == <<SCOPS_POOL, legal_seen, ncalls, ctxs, cli>>

\* The command-line program is not running.
NoCli == [pc |-> "none", pending |-> <<>>, counter |-> 0, log |-> <<>>, p |-> FALSE]

\* node_refs counts the isl_schedule_node references the record's slots own
\* (copies made minus references freed), dep_refs the references to the
\* dependency object (the record's and those no pointer holds any more),
\* leaked the other isl objects no pointer holds any more.
get_scop_callback(scops, scop) ==
  Append(scops,
         [scop |-> scop,
          dependency |-> get_dependencies(scop),
          current_node |-> isl_schedule_get_root(pet_scop_get_schedule(scop)),
          tmp_node |-> NULL,
          modified |-> FALSE,
          strings |-> <<>>,
          node_refs |-> 1,
          dep_refs |-> 1,
          leaked |-> 0])

RECURSIVE ForEachScop(_, _)
ForEachScop(scops, found) ==
  IF found = <<>> THEN scops
  ELSE ForEachScop(get_scop_callback(scops, Head(found)), Tail(found))

\* init_scops(input) with a pool and the contexts allocated so far: a new
\* context, one more vector in the pool, the records appended to the first
\* vector, whose size is returned.
init_scops_result(pool, cs, input) ==
  LET ctx == Len(cs) + 1
      p1 == Append(pool, <<>>)
      p2 == [p1 EXCEPT ![1] = ForEachScop(@, pet_transform_C_source(ctx, input))]
  IN [pool |-> p2, ctxs |-> Append(cs, TRUE), ret |-> Len(p2[1])]

\* The session right after init_scops(input).
Init ==
  \E input \in InputFiles :
     /\ SCOPS_POOL = init_scops_result(<<>>, <<>>, input).pool
     /\ legal_seen = [i \in 1 .. Len(SCOPS_POOL[1]) |-> FALSE]
     /\ ncalls = 0
     /\ ctxs = <<TRUE>>
     /\ cli = NoCli

ScopIdx == 0 .. Len(SCOPS_POOL[1]) - 1

Scop(scop_idx) == SCOPS_POOL[1][scop_idx + 1]

\* A reference is freed when isl turns a valid node into NULL.
Freed(before, after) == IF ~IsNull(before) /\ IsNull(after) THEN 1 ELSE 0

Held(c) == IF IsNull(c) THEN 0 ELSE 1

\* Every operation below has a result operator op_result(si, ...) giving the
\* record after the call (si) and the value returned to the driver (ret),
\* and an action that stores the record.
Result(si, r) == [si |-> si, ret |-> r]

Store(scop_idx, r) ==
  /\ SCOPS_POOL' = [SCOPS_POOL EXCEPT ![1][scop_idx + 1] = r.si]
  /\ UNCHANGED <<ctxs, cli>>

----------------------------------------------------------------------------
(* Node info *)

\* enum isl_schedule_node_type
TypeCode(t) ==
  CASE t = "error" -> -1 [] t = "band" -> 0 [] t = "domain" -> 2
    [] t = "filter" -> 5 [] t = "leaf" -> 6 [] t = "mark" -> 8
    [] t = "sequence" -> 9 [] t = "set" -> 10

get_type_result(si) ==
  Result(si, TypeCode(isl_schedule_node_get_type(si.current_node)))

get_type(scop_idx) ==
  /\ Store(scop_idx, get_type_result(Scop(scop_idx)))
  /\ UNCHANGED <<legal_seen, ncalls>>

get_num_children_result(si) ==
  Result(si, isl_schedule_node_n_children(si.current_node))

get_num_children(scop_idx) ==
  /\ Store(scop_idx, get_num_children_result(Scop(scop_idx)))
  /\ UNCHANGED <<legal_seen, ncalls>>

----------------------------------------------------------------------------
(* Current node manipulation *)

\* Re-seat current_node with the node an isl call returned for it.
Reseat(si, node) ==
  [si EXCEPT !.current_node = node, !.node_refs = @ - Freed(si.current_node, node)]

goto_root_result(si) ==
  Result(Reseat(si, isl_schedule_node_root(si.current_node)), 0)

goto_root(scop_idx) ==
  /\ Store(scop_idx, goto_root_result(Scop(scop_idx)))
  /\ UNCHANGED <<legal_seen, ncalls>>

goto_parent_result(si) ==
  Result(Reseat(si, isl_schedule_node_parent(si.current_node)), 0)

goto_parent(scop_idx) ==
  /\ Store(scop_idx, goto_parent_result(Scop(scop_idx)))
  /\ UNCHANGED <<legal_seen, ncalls>>

\* The driver picks a child among those get_num_children reports, and child
\* 0 where it reports none.
Children(node) == {k \in ChildIdx : k < Max(1, isl_schedule_node_n_children(node))}

goto_child_result(si, child_idx) ==
  Result(Reseat(si, isl_schedule_node_child(si.current_node, child_idx)), 0)

goto_child(scop_idx, child_idx) ==
  /\ Store(scop_idx, goto_child_result(Scop(scop_idx), child_idx))
  /\ UNCHANGED <<legal_seen, ncalls>>

----------------------------------------------------------------------------
(* Transformations *)

\* begin without the release of the old scratch cursor
pre_transform_keep(si) ==
  [si EXCEPT !.tmp_node = si.current_node, !.node_refs = @ + Held(si.current_node)]

pre_transform(si) ==
  LET freed == IF ~IsNull(si.tmp_node) THEN 1 ELSE 0
      copy == si.current_node
  IN [si EXCEPT !.tmp_node = copy, !.node_refs = @ - freed + Held(copy)]

\* The copy dep is never freed; the check consumes the reference it is
\* given, except on its early return for no dependences, which also leaves
\* the schedule map unreleased.
Unreleased(si, sched) ==
  [si EXCEPT !.dep_refs = IF si.dependency = {} THEN @ + 1 ELSE @,
             !.leaked = IF si.dependency = {} /\ sched.type # "error" THEN @ + 1 ELSE @]

post_transform(si) ==
  LET sched == isl_schedule_node_get_schedule(si.tmp_node)
      legal == tadashi_check_legality(sched, si.dependency)
  IN Result([Unreleased(si, sched) EXCEPT !.modified = TRUE,
                                          !.current_node = si.tmp_node,
                                          !.tmp_node = si.current_node],
            legal)

\* si->tmp_node = primitive(si->tmp_node, ...): the primitive consumes the node.
Apply(si, node) ==
  [si EXCEPT !.tmp_node = node, !.node_refs = @ - Freed(si.tmp_node, node)]

\* A tree-changing call of the driver.
Changed(scop_idx, r) ==
  /\ ncalls < MaxCalls
  /\ ncalls' = ncalls + 1
  /\ Store(scop_idx, r)

Transformed(scop_idx, r) ==
  /\ Changed(scop_idx, r)
  /\ legal_seen' = [legal_seen EXCEPT ![scop_idx + 1] = @ \/ r.ret = 1]

\* rollback that drops the scratch cursor instead of swapping
rollback_drop(si) ==
  Result([si EXCEPT !.tmp_node = NULL, !.node_refs = @ - Held(si.tmp_node)], 0)

rollback_result(si) ==
  Result([si EXCEPT !.tmp_node = si.current_node, !.current_node = si.tmp_node], 0)

rollback(scop_idx) ==
  /\ Store(scop_idx, rollback_result(Scop(scop_idx)))
  /\ UNCHANGED <<legal_seen, ncalls>>

tile_result(s0, tile_size) ==
  LET si == pre_transform(s0)
  IN post_transform(Apply(si, tadashi_tile(si.tmp_node, tile_size)))

tile(scop_idx, tile_size) ==
  Transformed(scop_idx, tile_result(Scop(scop_idx), tile_size))

interchange_result(s0) ==
  LET si == pre_transform(s0)
  IN post_transform(Apply(si, tadashi_interchange(si.tmp_node)))

interchange(scop_idx) ==
  Transformed(scop_idx, interchange_result(Scop(scop_idx)))

fuse_result(s0, idx1, idx2) ==
  LET si == pre_transform(s0)
  IN post_transform(Apply(si, tadashi_fuse(si.tmp_node, idx1, idx2)))

fuse(scop_idx, idx1, idx2) ==
  Transformed(scop_idx, fuse_result(Scop(scop_idx), idx1, idx2))

partial_shift_val_result(s0, pa_idx, val) ==
  LET si == pre_transform(s0)
  IN post_transform(Apply(si, tadashi_partial_shift_val(si.tmp_node, pa_idx, val)))

partial_shift_val(scop_idx, pa_idx, val) ==
  Transformed(scop_idx, partial_shift_val_result(Scop(scop_idx), pa_idx, val))

\* full_shift_var(scop_idx, coeff, var_idx) passes coeff and var_idx on, in
\* the places of pa_idx and id_idx.
full_shift_var_result(s0, coeff, var_idx) ==
  LET si == pre_transform(s0)
  IN post_transform(Apply(si, tadashi_full_shift_var(si.tmp_node, coeff, var_idx)))

full_shift_var(scop_idx, coeff, var_idx) ==
  Transformed(scop_idx, full_shift_var_result(Scop(scop_idx), coeff, var_idx))

\* full_shift_val(scop_idx, val) passes val on in the place of pa_idx and
\* nothing in the place of id_idx: the primitive reads an indeterminate
\* value there.
full_shift_val_result(s0, val, id_idx) ==
  LET si == pre_transform(s0)
  IN post_transform(Apply(si, tadashi_full_shift_val(si.tmp_node, val, id_idx)))

full_shift_val(scop_idx, val, id_idx) ==
  Transformed(scop_idx, full_shift_val_result(Scop(scop_idx), val, id_idx))

\* Marks the focused band as candidate-parallel: a mark node above it.
tadashi_set_parallel(node) ==
  IF isl_schedule_node_get_type(node) # "band" THEN NULL
  ELSE isl_schedule_node_insert_mark(node, "parallel")

\* No dependence may have a non-zero component in the band's dimension.
tadashi_check_legality_parallel(node, dep) ==
  IF isl_schedule_node_get_type(node) # "band" THEN isl_bool_false
  ELSE LET b == Focus(node)
       IN IF \A d \in dep :
                (d[1] \in DOMAIN b.sched /\ d[2] \in DOMAIN b.sched)
                   => b.sched[d[1]] = b.sched[d[2]]
          THEN isl_bool_true ELSE isl_bool_false

set_parallel_result(s0) ==
  LET s1 == pre_transform(s0)
      si == Apply(s1, tadashi_set_parallel(s1.tmp_node))
      \* the copy made for the check is freed again after it
      node == isl_schedule_node_first_child(si.tmp_node)
      legal == tadashi_check_legality_parallel(node, si.dependency)
  IN Result([Unreleased(si, ErrorNode) EXCEPT !.modified = TRUE,
                                              !.current_node = si.tmp_node,
                                              !.tmp_node = si.current_node],
            legal)

set_parallel(scop_idx) ==
  Transformed(scop_idx, set_parallel_result(Scop(scop_idx)))

\* set_loop_opt treated as one more transformation
set_loop_opt_gated(si, pos, opt) ==
  LET node == isl_schedule_node_band_member_set_ast_loop_type(si.current_node, pos, opt)
  IN Result([Reseat(si, node) EXCEPT !.modified = TRUE],
            tadashi_check_legality(isl_schedule_node_get_schedule(node), si.dependency))

set_loop_opt_result(si, pos, opt) ==
  Result(Reseat(si, isl_schedule_node_band_member_set_ast_loop_type(
                      si.current_node, pos, opt)),
         1)

set_loop_opt(scop_idx, pos, opt) ==
  /\ Changed(scop_idx, set_loop_opt_result(Scop(scop_idx), pos, opt))
  /\ UNCHANGED legal_seen

----------------------------------------------------------------------------
(* Code emission *)

pet_scop_print_original(scop) ==
  [kind |-> "original", scop |-> scop.name, schedule |-> ErrorNode]

codegen(scop, sched) ==
  [kind |-> "codegen", scop |-> scop.name, schedule |-> sched]

\* The NULL pet_scop and the NULL isl_printer.
NullScop == [name |-> "NULL", schedule |-> ErrorNode, dep |-> {}, ctx |-> 0]

Printer(text) == [ok |-> TRUE, text |-> text]

NullPrinter == [ok |-> FALSE, text |-> <<>>]

\* the callback without (*scop_idx)++
generate_code_callback_stuck(scops, p, scop, scop_idx) ==
  LET scop_info == scops[scop_idx + 1]
  IN IF scop = NullScop \/ ~p.ok THEN [p |-> NullPrinter, scop_idx |-> scop_idx]
     ELSE [p |-> Printer(Append(p.text,
                   IF ~scop_info.modified THEN pet_scop_print_original(scop)
                   ELSE codegen(scop_info.scop,
                          isl_schedule_node_get_schedule(scop_info.current_node)))),
           scop_idx |-> scop_idx]

\* One callback on the records "scops": returns [p, scop_idx].
generate_code_callback(scops, p, scop, scop_idx) ==
  LET scop_info == scops[scop_idx + 1]
  IN IF scop = NullScop \/ ~p.ok THEN [p |-> NullPrinter, scop_idx |-> scop_idx]
     ELSE [p |-> Printer(Append(p.text,
                   IF ~scop_info.modified THEN pet_scop_print_original(scop)
                   ELSE codegen(scop_info.scop,
                          isl_schedule_node_get_schedule(scop_info.current_node)))),
           scop_idx |-> scop_idx + 1]

\* pet_transform_C_source: the callback on each SCoP of the file in turn; it
\* stops with -1 when the callback returns no printer.  The front-end hands
\* over NULL instead of the SCoP at position null_at (0: never).  Returns the
\* result r, the text written to the output file, and the calls made: the
\* SCoP handed over and the value of *user before (idx) and after (next).
RECURSIVE TransformSource(_, _, _, _, _, _)
TransformSource(scops, found, k, null_at, p, scop_idx) ==
  IF k > Len(found) THEN [r |-> 0, out |-> p.text, calls |-> <<>>]
  ELSE LET scop == IF k = null_at THEN NullScop ELSE found[k]
           cb == generate_code_callback(scops, p, scop, scop_idx)
           call == [scop |-> scop, idx |-> scop_idx, next |-> cb.scop_idx]
       IN IF ~cb.p.ok THEN [r |-> -1, out |-> p.text, calls |-> <<call>>]
          ELSE [TransformSource(scops, found, k + 1, null_at, cb.p, cb.scop_idx)
                  EXCEPT !.calls = <<call>> \o @]

\* input_path is the file the session was loaded from.
generate_code_result(scops, null_at) ==
  LET found == [k \in 1 .. Len(scops) |-> scops[k].scop]
  IN TransformSource(scops, found, 1, null_at, Printer(<<>>), 0)

\* The isl_ctx is taken from the current node of SCoP 0.  The call leaves
\* the session as it is.
generate_code(null_at) ==
  /\ ~IsNull(Scop(0).current_node)
  /\ generate_code_result(SCOPS_POOL[1], null_at).r \in {0, -1}
  /\ UNCHANGED vars

----------------------------------------------------------------------------

Next ==
  \/ \E i \in ScopIdx : get_type(i)
  \/ \E i \in ScopIdx : get_num_children(i)
  \/ \E i \in ScopIdx : goto_root(i)
  \/ \E i \in ScopIdx : goto_parent(i)
  \/ \E i \in ScopIdx : \E k \in Children(Scop(i).current_node) : goto_child(i, k)
  \/ \E i \in ScopIdx, t \in TileSizes : tile(i, t)
  \/ \E i \in ScopIdx : interchange(i)
  \/ \E i \in ScopIdx, a \in ChildIdx, b \in ChildIdx : fuse(i, a, b)
  \/ \E i \in ScopIdx, pa \in ChildIdx, v \in ShiftVals : partial_shift_val(i, pa, v)
  \/ \E i \in ScopIdx : set_parallel(i)
  \/ \E i \in ScopIdx, pos \in LoopPos, opt \in LoopOpts : set_loop_opt(i, pos, opt)
  \/ \E i \in ScopIdx : rollback(i)
  \/ \E n \in 0 .. Len(SCOPS_POOL[1]) : generate_code(n)

Spec == Init /\ [][Next]_vars

----------------------------------------------------------------------------
(* tadashi.c: the command-line program *)

\* for i in 0..2: S: A[..] = A[..]: the may-dependences go forward in the
\* original order, which ones depends on the subscripts.
CliDomain == {Inst("S", i, 0) : i \in 0 .. 2}

CliPairs ==
  {<<Inst("S", p[1], 0), Inst("S", p[2], 0)>> : p \in {<<0, 1>>, <<0, 2>>, <<1, 2>>}}

CliDeps == SUBSET CliPairs

CliScop(dep) ==
  [name |-> "loop",
   schedule |-> Domain(CliDomain, Band([x \in CliDomain |-> x[2]], "L_0", Leaf)),
   dep |-> dep,
   ctx |-> 1]

\* The source files: one SCoP with any of the dependences, or two SCoPs.
CliFiles ==
  {<<CliScop(d)>> : d \in CliDeps}
    \cup {<<CliScop({}), CliScop({<<Inst("S", 0, 0), Inst("S", 1, 0)>>})>>}
    \cup {<<NullScop, CliScop({})>>}

\* What isl_schedule_read_from_file finds on stdin: nothing readable (NULL),
\* or a tree of one or two bands over the domain.
StdinValues == 0 .. 1

StdinSchedules ==
  {ErrorNode}
    \cup {Domain(CliDomain, Band(f, "", Leaf)) : f \in [CliDomain -> StdinValues]}
    \cup {Domain(CliDomain, Band(f, "", Band(g, "", Leaf))) :
            f \in [CliDomain -> StdinValues], g \in [CliDomain -> StdinValues]}

\* generate_code of tadashi.c: the code built from the schedule.
generate_code_cli(scop, schedule) ==
  [kind |-> "codegen", scop |-> scop.name, schedule |-> schedule]

\* transform_scop: the verdict on the schedule read, the schedule the code
\* is generated from, and the handles the legality check left unreleased
\* (its early return frees neither the dependences nor the schedule map).
transform_scop(scop, read) ==
  LET dep == get_dependencies(scop)
      legal == check_schedule_legality(read, dep)
      schedule == IF legal = isl_bool_false THEN pet_scop_get_schedule(scop) ELSE read
  IN [dep |-> dep,
      read |-> read,
      legal |-> legal,
      original |-> pet_scop_get_schedule(scop),
      code |-> generate_code_cli(scop, schedule),
      leaked |-> IF dep # {} THEN 0 ELSE IF read.type = "error" THEN 1 ELSE 2]

\* main up to the call of pet_transform_C_source on the source file.
CliInit ==
  /\ SCOPS_POOL = <<>>
  /\ legal_seen = <<>>
  /\ ncalls = 0
  /\ ctxs = <<TRUE>>
  /\ \E file \in CliFiles :
       cli = [pc |-> "scops", pending |-> file, counter |-> 0, log |-> <<>>,
              p |-> TRUE]

\* One call of the callback, on the next SCoP of the file.  Its first
\* statement reads args->counter before args is assigned: the read of the
\* uninitialized pointer either yields some number to print or faults.  A
\* NULL SCoP or printer ends the call before the counter moves, and the
\* printer is NULL from then on.
foreach_scop_callback(read, fault) ==
  /\ cli.pc = "scops"
  /\ cli.pending # <<>>
  /\ cli' = IF fault THEN [cli EXCEPT !.pc = "fault"]
            ELSE IF Head(cli.pending).name = "NULL" \/ ~cli.p
              THEN [cli EXCEPT !.pending = Tail(@), !.p = FALSE]
            ELSE [cli EXCEPT !.pending = Tail(@),
                             !.counter = @ + 1,
                             !.log = Append(@, transform_scop(Head(cli.pending), read))]
  /\ UNCHANGED <<SCOPS_POOL, legal_seen, ncalls, ctxs>>

RECURSIVE SumLeaked(_)
SumLeaked(log) == IF log = <<>> THEN 0 ELSE Head(log).leaked + SumLeaked(Tail(log))

\* main after pet_transform_C_source: isl_ctx_free releases the context
\* unless objects still refer to it.
main_return ==
  /\ cli.pc = "scops"
  /\ cli.pending = <<>>
  /\ cli' = [cli EXCEPT !.pc = "done"]
  /\ ctxs' = <<SumLeaked(cli.log) # 0>>
  /\ UNCHANGED <<SCOPS_POOL, legal_seen, ncalls>>

CliNext ==
  \/ \E read \in StdinSchedules, fault \in BOOLEAN : foreach_scop_callback(read, fault)
  \/ main_return

CliSpec == CliInit /\ [][CliNext]_vars

----------------------------------------------------------------------------
(* ctadashi: strings handed to the driver, and the session's life cycle *)

\* The driver loads at most this many files in a program run.
MaxInits == 2

LifeFiles == {"empty.c", "nest.c", "three.c"}

\* scop_t::add_string: the text is copied to the end of the record's strings
\* and the pointer returned is the stored copy's.
add_string(si, str) ==
  Result([si EXCEPT !.strings = Append(@, str)], [owner |-> "record", text |-> str])

\* Off a band the returned pointer is a string literal of the library.
get_expr_result(si) ==
  IF isl_schedule_node_get_type(si.current_node) # "band"
    THEN Result(si, [owner |-> "literal", text |-> [what |-> "", of |-> ErrorNode]])
    ELSE add_string(si, [what |-> "mupa", of |-> Focus(si.current_node)])

get_expr(idx) ==
  /\ Changed(idx, get_expr_result(Scop(idx)))
  /\ UNCHANGED legal_seen

get_loop_signature_result(si) ==
  IF isl_schedule_node_get_type(si.current_node) # "band"
    THEN Result(si, [owner |-> "literal", text |-> [what |-> "[]", of |-> ErrorNode]])
    ELSE add_string(si, [what |-> "signature", of |-> Focus(si.current_node)])

get_loop_signature(scop_idx) ==
  /\ Changed(scop_idx, get_loop_signature_result(Scop(scop_idx)))
  /\ UNCHANGED legal_seen

\* The text isl_schedule_node_to_str allocates goes to the driver as it is:
\* no record stores it, and nothing frees it.
print_schedule_node_result(si) ==
  Result(si, IF IsNull(si.current_node)
               THEN [owner |-> "null", text |-> [what |-> "node", of |-> ErrorNode]]
               ELSE [owner |-> "malloc", text |-> [what |-> "node", of |-> Focus(si.current_node)]])

print_schedule_node(scop_idx) ==
  /\ Store(scop_idx, print_schedule_node_result(Scop(scop_idx)))
  /\ UNCHANGED <<legal_seen, ncalls>>

init_scops(input) ==
  /\ Len(ctxs) < MaxInits
  /\ LET r == init_scops_result(SCOPS_POOL, ctxs, input)
     IN /\ SCOPS_POOL' = r.pool
        /\ ctxs' = r.ctxs
  /\ legal_seen' = legal_seen \o [k \in 1 .. Len(ScopsOf(input)) |-> FALSE]
  /\ UNCHANGED <<ncalls, cli>>

\* free_scops on a pool: nothing for an empty first vector; otherwise every
\* record's slots are freed once (freed[k] counts the free calls and .leaked
\* the isl objects of the first record's context they leave alive), the
\* vector is cleared, and isl_ctx_free releases the first record's context
\* unless objects still refer to it.
free_scops_result(pool, cs) ==
  IF Len(pool[1]) = 0 THEN [pool |-> pool, ctxs |-> cs, freed |-> <<>>]
  ELSE LET ctx == pool[1][1].scop.ctx
           freed == [k \in 1 .. Len(pool[1]) |->
                      LET si == pool[1][k]
                          slots == Held(si.current_node) + Held(si.tmp_node)
                      IN [dependency |-> 1,
                          nodes |-> slots,
                          scop |-> 1,
                          strings |-> Len(si.strings),
                          leaked |-> IF si.scop.ctx # ctx THEN 0
                                     ELSE (si.dep_refs - 1) + (si.node_refs - slots)
                                          + si.leaked]]
       IN [pool |-> [pool EXCEPT ![1] = <<>>],
           ctxs |-> [cs EXCEPT ![ctx] = SumLeaked(freed) # 0],
           freed |-> freed]

free_scops ==
  /\ LET r == free_scops_result(SCOPS_POOL, ctxs)
     IN /\ SCOPS_POOL' = r.pool
        /\ ctxs' = r.ctxs
  /\ legal_seen' = <<>>
  /\ UNCHANGED <<ncalls, cli>>

\* A driver's run: the first file is loaded.
LifeInit ==
  \E input \in LifeFiles :
     /\ SCOPS_POOL = init_scops_result(<<>>, <<>>, input).pool
     /\ legal_seen = [i \in 1 .. Len(SCOPS_POOL[1]) |-> FALSE]
     /\ ncalls = 0
     /\ ctxs = <<TRUE>>
     /\ cli = NoCli

LifeNext ==
  \/ \E input \in LifeFiles : init_scops(input)
  \/ free_scops
  \/ \E i \in ScopIdx : \E k \in Children(Scop(i).current_node) : goto_child(i, k)
  \/ \E i \in ScopIdx, t \in TileSizes : tile(i, t)
  \/ \E i \in ScopIdx, a \in ChildIdx, b \in ChildIdx : fuse(i, a, b)
  \/ \E i \in ScopIdx : get_expr(i)
  \/ \E i \in ScopIdx : get_loop_signature(i)
  \/ \E i \in ScopIdx : print_schedule_node(i)

LifeSpec == LifeInit /\ [][LifeNext]_vars

----------------------------------------------------------------------------
(* ctadashi: a session that shifts the band over two statements *)

ShiftInit ==
  /\ SCOPS_POOL = init_scops_result(<<>>, <<>>, "pair.c").pool
  /\ legal_seen = <<FALSE>>
  /\ ncalls = 0
  /\ ctxs = <<TRUE>>
  /\ cli = NoCli

ShiftNext ==
  \/ \E i \in ScopIdx : goto_parent(i)
  \/ \E i \in ScopIdx : \E k \in Children(Scop(i).current_node) : goto_child(i, k)
  \/ \E i \in ScopIdx, pa \in ChildIdx, v \in ShiftVals : partial_shift_val(i, pa, v)
  \/ \E i \in ScopIdx, coeff \in ChildIdx, k \in ChildIdx : full_shift_var(i, coeff, k)
  \/ \E i \in ScopIdx, val \in ChildIdx, v \in ShiftVals : full_shift_val(i, val, v)
  \/ \E i \in ScopIdx : rollback(i)

ShiftSpec == ShiftInit /\ [][ShiftNext]_vars

----------------------------------------------------------------------------
(* The transformation calls of the driver, as data *)

TransformCalls ==
  {<<"tile", t, 0>> : t \in TileSizes}
    \cup {<<"interchange", 0, 0>>}
    \cup {<<"fuse", a, b>> : a \in ChildIdx, b \in ChildIdx}
    \cup {<<"partial_shift_val", pa, v>> : pa \in ChildIdx, v \in ShiftVals}
    \cup {<<"set_parallel", 0, 0>>}

\* The record and return value of call c on record si.
Call(si, c) ==
  CASE c[1] = "tile" -> tile_result(si, c[2])
    [] c[1] = "interchange" -> interchange_result(si)
    [] c[1] = "fuse" -> fuse_result(si, c[2], c[3])
    [] c[1] = "partial_shift_val" -> partial_shift_val_result(si, c[2], c[3])
    [] c[1] = "set_parallel" -> set_parallel_result(si)

\* The node the primitive of call c makes of node.
Primitive(node, c) ==
  CASE c[1] = "tile" -> tadashi_tile(node, c[2])
    [] c[1] = "interchange" -> tadashi_interchange(node)
    [] c[1] = "fuse" -> tadashi_fuse(node, c[2], c[3])
    [] c[1] = "partial_shift_val" -> tadashi_partial_shift_val(node, c[2], c[3])
    [] c[1] = "set_parallel" -> tadashi_set_parallel(node)

\* The verdict of the oracle call c consults, on candidate cand.
Oracle(si, cand, c) ==
  IF c[1] = "set_parallel"
  THEN tadashi_check_legality_parallel(isl_schedule_node_first_child(cand),
                                       si.dependency)
  ELSE tadashi_check_legality(isl_schedule_node_get_schedule(cand), si.dependency)

\* The oracle's verdict on the schedule a cursor points into.
Accepted(si, node) ==
  tadashi_check_legality(isl_schedule_node_get_schedule(node), si.dependency)
    = isl_bool_true

\* The candidate is a tree and the oracle says no to it.
Rejected(si, c) ==
  LET cand == Primitive(si.current_node, c)
  IN ~IsNull(cand) /\ Oracle(si, cand, c) = isl_bool_false

----------------------------------------------------------------------------
(* Commit, dirty flag *)

\* C1: a transformation call whose candidate the oracle rejects leaves the
\* current cursor as it was before the call, leaves the rejected candidate
\* in the scratch slot and returns 0.
C1_RejectedLeavesCurrent ==
  \A i \in ScopIdx : \A c \in TransformCalls :
    LET si == Scop(i)
        r == Call(si, c)
    IN Rejected(si, c) =>
         /\ r.si.current_node = si.current_node
         /\ r.si.tmp_node = Primitive(si.current_node, c)
         /\ r.ret = 0

\* C2: in every reachable state the schedule under each current cursor is
\* accepted by the oracle (the schedules the session starts from are): no
\* rejected candidate becomes the current cursor.
C2_CurrentAccepted ==
  \A i \in ScopIdx :
    LET si == Scop(i)
    IN Accepted(si, isl_schedule_get_root(pet_scop_get_schedule(si.scop)))
         /\ ~IsNull(si.current_node)
       => Accepted(si, si.current_node)

\* C3: when a transformation call returns 1, the oracle accepts the
\* schedule of the current cursor the call leaves behind.
C3_LegalMeansAccepted ==
  \A i \in ScopIdx : \A c \in TransformCalls :
    LET r == Call(Scop(i), c)
    IN r.ret = 1 => Accepted(r.si, r.si.current_node)

\* C4: the dirty flag of a record is true exactly when some transformation
\* on it returned 1 (so it is false after init_scops), and a call whose
\* candidate is rejected leaves the flag as it was.
C4_DirtyIffCommitted ==
  \A i \in ScopIdx :
    /\ Scop(i).modified <=> legal_seen[i + 1]
    /\ \A c \in TransformCalls :
         Rejected(Scop(i), c) => Call(Scop(i), c).si.modified = Scop(i).modified

----------------------------------------------------------------------------
(* Rollback, failed primitives *)

\* The record of SCoP i as loaded, focused on child 0 of the root.
Loaded(i) ==
  [get_scop_callback(<<>>, Scop(i).scop)[1] EXCEPT
     !.current_node = isl_schedule_node_child(@, 0)]

\* C5: a transformation call (whatever it returns) followed by one rollback
\* leaves the current cursor, tree and focus, as it was before the call.
C5_RollbackRestores ==
  \A i \in ScopIdx : \A c \in TransformCalls :
    LET si == Scop(i)
    IN rollback_result(Call(si, c).si).si.current_node = si.current_node

\* Some SCoP is in the state a call that built a candidate, then a
\* rollback, leave a loaded record in.
C5_Witness ==
  \E i \in ScopIdx : \E c \in TransformCalls :
    LET r == Call(Loaded(i), c)
    IN /\ ~IsNull(r.si.current_node)
       /\ r.si.current_node # Loaded(i).current_node
       /\ Scop(i) = rollback_result(r.si).si

\* What the words of the failure taxonomy name as a violated precondition.
PreconditionViolated(node, c) ==
  CASE c[1] \in {"tile", "partial_shift_val"} ->
         isl_schedule_node_get_type(node) # "band"
    [] c[1] = "interchange" ->
         \/ isl_schedule_node_get_type(node) # "band"
         \/ isl_schedule_node_get_type(isl_schedule_node_child(node, 0)) # "band"
    [] c[1] = "fuse" ->
         c[2] >= c[3] \/ c[3] >= isl_schedule_node_n_children(node)
    [] OTHER -> FALSE

\* C6: a call whose primitive's precondition is violated finds the
\* primitive failing, returns 0 and keeps the valid cursor it was called
\* on as the current cursor; the next begin replaces the scratch by a copy
\* of that cursor.
C6_FailedPrimitiveKeepsCurrent ==
  \A i \in ScopIdx : \A c \in TransformCalls :
    LET si == Scop(i)
        r == Call(si, c)
    IN ~IsNull(si.current_node) /\ PreconditionViolated(si.current_node, c) =>
         /\ IsNull(Primitive(si.current_node, c))
         /\ r.ret = 0
         /\ r.si.current_node = si.current_node
         /\ pre_transform(r.si).tmp_node = si.current_node

----------------------------------------------------------------------------
(* Code emission *)

\* C7: generate_code writes, for each SCoP in order, the original text when
\* the record is not dirty and the code generated from the schedule of the
\* current cursor when it is; a SCoP none of whose transformations
\* returned 1 is written as its original text.
C7_EmitsByDirtyFlag ==
  ~IsNull(Scop(0).current_node) =>
    LET scops == SCOPS_POOL[1]
        res == generate_code_result(scops, 0)
    IN /\ res.r = 0
       /\ Len(res.out) = Len(scops)
       /\ \A k \in 1 .. Len(scops) :
            /\ res.out[k] =
                 IF ~scops[k].modified THEN pet_scop_print_original(scops[k].scop)
                 ELSE codegen(scops[k].scop,
                        isl_schedule_node_get_schedule(scops[k].current_node))
            /\ ~legal_seen[k] => res.out[k] = pet_scop_print_original(scops[k].scop)

----------------------------------------------------------------------------
(* Scratch slot *)

\* C8: begin leaves the current cursor alone and makes the scratch slot a
\* copy of it, freeing the scratch cursor the slot held; in every reachable
\* state a record owns exactly the cursors in its two slots (one scratch at
\* most, none dropped without being freed).
C8_BeginReleasesScratch ==
  \A i \in ScopIdx :
    LET si == Scop(i)
        b == pre_transform(si)
    IN /\ si.node_refs = Held(si.current_node) + Held(si.tmp_node)
       /\ b.current_node = si.current_node
       /\ b.tmp_node = si.current_node
       /\ b.node_refs = Held(b.current_node) + Held(b.tmp_node)

\* Some SCoP is in the state two calls in a row leave a loaded record in,
\* the second one beginning with a scratch cursor in the slot.
C8_Witness ==
  \E i \in ScopIdx : \E c1 \in TransformCalls, c2 \in TransformCalls :
    LET r1 == Call(Loaded(i), c1)
    IN /\ ~IsNull(r1.si.current_node)
       /\ ~IsNull(r1.si.tmp_node)
       /\ Scop(i) = Call(r1.si, c2).si

----------------------------------------------------------------------------
(* Frames *)

Navigates(i) ==
  \/ goto_root(i)
  \/ goto_parent(i)
  \/ \E k \in ChildIdx : goto_child(i, k)

\* C9: a goto_root, goto_parent or goto_child step on SCoP i changes only
\* the focus of its current cursor: the tree under the current cursor, the
\* scratch cursor, the dirty flag, the dependences and the records of the
\* other SCoPs stay as they are.
C9_NavigationMovesFocusOnly ==
  [][\A i \in ScopIdx :
       Navigates(i) =>
         /\ SCOPS_POOL'[1][i + 1].current_node.tree = Scop(i).current_node.tree
         /\ SCOPS_POOL'[1][i + 1].tmp_node = Scop(i).tmp_node
         /\ SCOPS_POOL'[1][i + 1].modified = Scop(i).modified
         /\ SCOPS_POOL'[1][i + 1].dependency = Scop(i).dependency
         /\ \A j \in ScopIdx \ {i} : SCOPS_POOL'[1][j + 1] = Scop(j)]_vars

\* A band member the call can annotate: bands here have one member.
AnnotatesBand(si, pos) ==
  isl_schedule_node_get_type(si.current_node) = "band" /\ pos = 0

----------------------------------------------------------------------------
(* Legality check *)

\* Tuple a comes lexicographically before tuple b (same length).
RECURSIVE LexLt(_, _)
LexLt(a, b) ==
  /\ a # <<>>
  /\ \/ Head(a) < Head(b)
     \/ Head(a) = Head(b) /\ LexLt(Tail(a), Tail(b))

\* The schedule point the schedule read gives an instance.
PointOf(read, x) == isl_schedule_get_map(read).fn[x]

\* C11 (as the code has it): the check calls a schedule legal exactly when
\* every dependence has its sink scheduled strictly after its source (every
\* delta is lexicographically greater than zero); a dependence with delta = 0
\* makes the schedule illegal; no dependences is always legal.
C11_LegalIffStrictlyForward ==
  \A k \in 1 .. Len(cli.log) :
    LET e == cli.log[k]
    IN /\ e.dep = {} => e.legal = isl_bool_true
       /\ e.read.type # "error" =>
            /\ e.legal \in {isl_bool_true, isl_bool_false}
            /\ e.legal = isl_bool_true <=>
                 \A d \in e.dep : LexLt(PointOf(e.read, d[1]), PointOf(e.read, d[2]))
            /\ (\E d \in e.dep : PointOf(e.read, d[1]) = PointOf(e.read, d[2]))
                 => e.legal = isl_bool_false

\* C11 (as stated): legal exactly when no delta is lexicographically less
\* than zero, so that a dependence with delta = 0 does not make the schedule
\* illegal; no dependences is always legal.
C11_LegalIffNoBackward ==
  \A k \in 1 .. Len(cli.log) :
    LET e == cli.log[k]
    IN /\ e.dep = {} => e.legal = isl_bool_true
       /\ e.read.type # "error" =>
            (e.legal = isl_bool_true <=>
               \A d \in e.dep : ~LexLt(PointOf(e.read, d[2]), PointOf(e.read, d[1])))

\* The check has run on a schedule that gives the two ends of a dependence
\* the same point and moves no dependence backwards.
C11_Witness ==
  \E k \in 1 .. Len(cli.log) :
    LET e == cli.log[k]
    IN /\ e.read.type # "error"
       /\ \E d \in e.dep : PointOf(e.read, d[1]) = PointOf(e.read, d[2])
       /\ \A d \in e.dep : ~LexLt(PointOf(e.read, d[2]), PointOf(e.read, d[1]))

----------------------------------------------------------------------------
(* free_scops, init_scops and the session's contexts *)

\* C12: in every reachable state of a session, free_scops releases each
\* record's dependence relation, current cursor, scratch cursor (if present)
\* and SCoP metadata, each exactly once and leaving no isl object of the
\* record alive, and then releases the context.
C12_FreeScopsReleasesAll ==
  LET r == free_scops_result(SCOPS_POOL, ctxs)
  IN /\ \A k \in 1 .. Len(SCOPS_POOL[1]) :
          LET si == SCOPS_POOL[1][k]
          IN /\ r.freed[k].dependency = si.dep_refs
             /\ r.freed[k].nodes = si.node_refs
             /\ r.freed[k].scop = 1
             /\ r.freed[k].leaked = 0
     /\ r.pool[1] = <<>>
     /\ r.ctxs[1] = FALSE

\* C13: in every reachable state, free_scops leaves no record in the session
\* and no context allocated by an init_scops alive: also when the file had
\* no SCoP and when init_scops was called more than once before it.
C13_FreeScopsReleasesContexts ==
  LET r == free_scops_result(SCOPS_POOL, ctxs)
  IN /\ r.pool[1] = <<>>
     /\ \A c \in 1 .. Len(ctxs) : r.ctxs[c] = FALSE

\* C14: in every reachable state, init_scops(path) returns the number of
\* SCoPs of that path, and each record it makes has its current cursor at
\* the root of the SCoP's original schedule, no scratch cursor and
\* modified = FALSE.
C14_InitScopsReturnsLoaded ==
  \A input \in LifeFiles :
     LET r == init_scops_result(SCOPS_POOL, ctxs, input)
         n == Len(ScopsOf(input))
         old == Len(SCOPS_POOL[1])
     IN /\ r.ret = n
        /\ Len(r.pool[1]) = old + n
        /\ \A k \in 1 .. n :
             LET si == r.pool[1][old + k]
             IN /\ si.current_node = Cursor(ScopsOf(input)[k].schedule, <<>>)
                /\ si.tmp_node = NULL
                /\ si.modified = FALSE

\* C15: in every reachable state, the string get_expr, get_loop_signature or
\* print_schedule_node returns for a record is one the record stores (and so
\* releases with itself), or a constant of the library; it is never a text
\* no record holds.
C15_StringsOwnedByRecord ==
  \A i \in ScopIdx :
     \A r \in {get_expr_result(Scop(i)), get_loop_signature_result(Scop(i)),
               print_schedule_node_result(Scop(i))} :
        \/ r.ret.owner = "literal"
        \/ /\ r.ret.owner = "record"
           /\ \E k \in 1 .. Len(r.si.strings) : r.si.strings[k] = r.ret.text

----------------------------------------------------------------------------
(* The primitives' effect on the tree *)

\* C16: tile(t) at a band with schedule d makes a tower of two bands, the
\* outer with schedule t * floor(d / t) and the inner, its only child, with
\* d mod t, so that outer + inner = d; the focus is on the outer band.
C16_TileScaledTower ==
  \A i \in ScopIdx, t \in TileSizes :
     LET node == Scop(i).current_node
         r == tadashi_tile(node, t)
         d == Focus(node).sched
     IN isl_schedule_node_get_type(node) = "band" =>
          /\ isl_schedule_node_get_type(r) = "band"
          /\ r.path = node.path
          /\ Len(Focus(r).children) = 1
          /\ Focus(r).children[1].type = "band"
          /\ Focus(r).children[1].children = Focus(node).children
          /\ \A x \in DOMAIN d :
               /\ Focus(r).sched[x] = t * (d[x] \div t)
               /\ Focus(r).children[1].sched[x] = d[x] % t
               /\ Focus(r).sched[x] + Focus(r).children[1].sched[x] = d[x]

\* C16 as stated: the outer band has floor(d / t), the inner, its only child,
\* d mod t, and outer * t + inner = d; the focus is on the outer band.
C16_TileQuotientTower ==
  \A i \in ScopIdx, t \in TileSizes :
     LET node == Scop(i).current_node
         r == tadashi_tile(node, t)
         d == Focus(node).sched
     IN isl_schedule_node_get_type(node) = "band" =>
          /\ isl_schedule_node_get_type(r) = "band"
          /\ r.path = node.path
          /\ Len(Focus(r).children) = 1
          /\ Focus(r).children[1].type = "band"
          /\ \A x \in DOMAIN d :
               /\ Focus(r).sched[x] = d[x] \div t
               /\ Focus(r).children[1].sched[x] = d[x] % t
               /\ Focus(r).sched[x] * t + Focus(r).children[1].sched[x] = d[x]

\* A tile of a band reaching past the tile size was committed: the focus is
\* on the outer band, the scratch cursor on the band it was made from.
C16_Witness ==
  \E i \in ScopIdx, t \in TileSizes :
     /\ isl_schedule_node_get_type(Scop(i).tmp_node) = "band"
     /\ Scop(i).current_node = tadashi_tile(Scop(i).tmp_node, t)
     /\ \E x \in DOMAIN Focus(Scop(i).tmp_node).sched :
          Focus(Scop(i).tmp_node).sched[x] >= t

\* The focus is on a band whose only child is a band.
BandTower(node) ==
  /\ isl_schedule_node_get_type(node) = "band"
  /\ Len(Focus(node).children) = 1
  /\ Focus(node).children[1].type = "band"

\* C17: interchange at a band A whose only child is a band B puts B's
\* schedule on the outer band and A's on the inner, changes no other node,
\* and leaves the focus on B, now the outer band.
C17_InterchangeSwapsFocusOuter ==
  \A i \in ScopIdx :
     LET node == Scop(i).current_node
         A == Focus(node)
         B == A.children[1]
         r == tadashi_interchange(node)
     IN BandTower(node) =>
          /\ r.tree = ReplaceAt(node.tree, node.path,
                                [B EXCEPT !.children = <<[A EXCEPT !.children = B.children]>>])
          /\ r.path = node.path
          /\ Focus(r).sched = B.sched

\* C18: interchange applied twice, the second time at the focus the first
\* left, gives a tree whose schedule map is the original one.
C18_InterchangeTwiceRestores ==
  \A i \in ScopIdx :
     LET node == Scop(i).current_node
         r == tadashi_interchange(tadashi_interchange(node))
     IN BandTower(node) =>
          /\ ~IsNull(r)
          /\ isl_schedule_get_map(isl_schedule_node_get_schedule(r))
               = isl_schedule_get_map(isl_schedule_node_get_schedule(node))

\* C19: fuse(i1, i2), i1 < i2, at a sequence of n >= 2 filters f (with a
\* band below the two chosen ones) returns a sequence of n - 1 filters: the
\* one at position i1 is the union of f[i1] and f[i2], the others are the
\* other filters of f in their order, and together they cover what f covers.
C19_FuseOuterFilters ==
  \A i \in ScopIdx, i1 \in ChildIdx, i2 \in ChildIdx :
     LET node == Scop(i).current_node
         kids == Focus(node).children
         n == Len(kids)
         r == tadashi_fuse(node, i1, i2)
         g == Focus(r).children
         old(k) == LET a == IF k <= i1 THEN k ELSE k + 1
                   IN IF a < i2 + 1 THEN a ELSE a + 1
     IN /\ isl_schedule_node_get_type(node) = "sequence"
        /\ i1 < i2 /\ i2 < n
        /\ \A k \in 1 .. n : kids[k].type = "filter"
        /\ \A k \in {i1 + 1, i2 + 1} : kids[k].children[1].type = "band"
        => /\ isl_schedule_node_get_type(r) = "sequence"
           /\ Len(g) = n - 1
           /\ \A k \in 1 .. n - 1 : g[k].type = "filter"
           /\ g[i1 + 1].filter = kids[i1 + 1].filter \cup kids[i2 + 1].filter
           /\ \A k \in 1 .. n - 2 :
                g[IF k <= i1 THEN k ELSE k + 1].filter = kids[old(k)].filter
           /\ UNION {g[k].filter : k \in 1 .. n - 1}
                = UNION {kids[k].filter : k \in 1 .. n}

\* C20: after such a fuse the unified filter has one band below it, with the
\* two bands' schedules, each on its own filter; below that band a sequence
\* holds the two original subtrees under their original filters; every
\* sequence of the tree has only filters as children; the focus is on the
\* outer sequence.
C20_FuseInnerStructure ==
  \A i \in ScopIdx, i1 \in ChildIdx, i2 \in ChildIdx :
     LET node == Scop(i).current_node
         kids == Focus(node).children
         n == Len(kids)
         r == tadashi_fuse(node, i1, i2)
         band == Focus(r).children[i1 + 1].children[1]
         inner == band.children[1]
         k1 == kids[i1 + 1]
         k2 == kids[i2 + 1]
         RECURSIVE FiltersBelowSequences(_)
         FiltersBelowSequences(t) ==
           /\ t.type = "sequence" => \A k \in 1 .. Len(t.children) : t.children[k].type = "filter"
           /\ \A k \in 1 .. Len(t.children) : FiltersBelowSequences(t.children[k])
     IN /\ isl_schedule_node_get_type(node) = "sequence"
        /\ i1 < i2 /\ i2 < n
        /\ \A k \in 1 .. n : kids[k].type = "filter"
        /\ \A k \in {i1 + 1, i2 + 1} : kids[k].children[1].type = "band"
        => /\ isl_schedule_node_get_type(r) = "sequence"
           /\ r.path = node.path
           /\ Len(Focus(r).children[i1 + 1].children) = 1
           /\ band.type = "band"
           /\ band.sched = [x \in k1.filter \cup k2.filter |->
                              IF x \in k1.filter THEN k1.children[1].sched[x]
                              ELSE k2.children[1].sched[x]]
           /\ inner.type = "sequence"
           /\ inner.children = <<k1, k2>>
           /\ FiltersBelowSequences(r.tree)

\* C21: the band a fuse(i1, i2) inserts below the unified filter carries the
\* output-tuple identifier of the band that was below filter i1.
C21_FuseBandKeepsFirstId ==
  \A i \in ScopIdx, i1 \in ChildIdx, i2 \in ChildIdx :
     LET node == Scop(i).current_node
         kids == Focus(node).children
         r == tadashi_fuse(node, i1, i2)
     IN /\ isl_schedule_node_get_type(node) = "sequence"
        /\ i1 < i2 /\ i2 < Len(kids)
        /\ ~IsNull(r)
        => /\ Focus(r).children[i1 + 1].children[1].type = "band"
           /\ Focus(r).children[i1 + 1].children[1].id = kids[i1 + 1].children[1].id

----------------------------------------------------------------------------
(* The shifts *)

\* C22: partial_shift_val(pa_idx, v) at a band whose schedule has the pieces
\* 0 .. m - 1, 0 <= pa_idx < m, gives the same tree with, at the focus, the
\* old schedule plus v on piece pa_idx, the old schedule on every other
\* piece, and the band's output-tuple identifier unchanged.
C22_PartialShiftValOnePiece ==
  \A i \in ScopIdx, pa_idx \in ChildIdx, v \in ShiftVals :
     LET node == Scop(i).current_node
         old == Focus(node).sched
         pieces == isl_union_set_get_set_list(DOMAIN old)
         r == tadashi_partial_shift_val(node, pa_idx, v)
     IN isl_schedule_node_get_type(node) = "band" /\ pa_idx < Len(pieces) =>
          /\ isl_schedule_node_get_type(r) = "band"
          /\ r = isl_schedule_node_graft_tree(node, [Focus(node) EXCEPT !.sched = Focus(r).sched])
          /\ Focus(r).id = Focus(node).id
          /\ DOMAIN Focus(r).sched = DOMAIN old
          /\ \A x \in DOMAIN old :
               Focus(r).sched[x] = IF x \in pieces[pa_idx + 1] THEN old[x] + v ELSE old[x]

\* C23: at a band, full_shift_val with the constant v gives the old schedule
\* plus v on every piece, and full_shift_var with the dimension k the old
\* schedule plus the value of input dimension k on every piece, whatever
\* the other argument is.
C23_FullShiftEveryPiece ==
  \A i \in ScopIdx, pa_idx \in ChildIdx :
     LET node == Scop(i).current_node
         old == Focus(node).sched
     IN isl_schedule_node_get_type(node) = "band" =>
          /\ \A v \in ShiftVals :
               LET r == tadashi_full_shift_val(node, pa_idx, v)
               IN /\ isl_schedule_node_get_type(r) = "band"
                  /\ \A x \in DOMAIN old : Focus(r).sched[x] = old[x] + v
          /\ \A k \in 0 .. 1 :
               LET r == tadashi_full_shift_var(node, pa_idx, k)
               IN /\ isl_schedule_node_get_type(r) = "band"
                  /\ \A x \in DOMAIN old : Focus(r).sched[x] = old[x] + x[k + 2]

----------------------------------------------------------------------------
(* Ownership *)

\* C24: a transformation call (primitive, oracle and commit) releases or
\* hands over every handle it obtains or copies: after it the record's
\* dependence relation has the references it had, no isl object is left
\* without a holder, and the cursor references are those of the two slots.
C24_EveryHandleReleasedOnce ==
  \A i \in ScopIdx, c \in TransformCalls :
     LET r == Call(Scop(i), c).si
     IN c[1] # "set_parallel" =>
          /\ r.dep_refs = Scop(i).dep_refs
          /\ r.leaked = Scop(i).leaked
          /\ r.node_refs = Held(r.current_node) + Held(r.tmp_node)

----------------------------------------------------------------------------
(* The command-line program and the emission *)

\* C25: in the command-line program, for every SCoP whose code is emitted,
\* the code is generated from the schedule read from input exactly when
\* check_schedule_legality accepts that schedule (returns isl_bool_true), and
\* from the SCoP's original schedule when it does not; the SCoP counter is
\* the number of SCoPs processed so far (one more per processed SCoP).
C25_CodeFromReadIffAccepted ==
  /\ cli.counter = Len(cli.log)
  /\ \A k \in 1 .. Len(cli.log) :
       LET e == cli.log[k]
       IN /\ e.code.schedule = e.read <=> e.legal = isl_bool_true
          /\ e.legal # isl_bool_true => e.code.schedule = e.original

\* C26 (as the code has it): during generate_code the k-th call of the
\* callback reads the k-th SCoP record; a call that is handed a SCoP and a
\* printer advances the index by exactly one and writes the text of that
\* record's SCoP; a call on a NULL SCoP or printer leaves the index where it
\* is, and it is the last call of the traversal.
C26_CallbackReadsKthRecord ==
  ~IsNull(Scop(0).current_node) =>
    \A null_at \in 0 .. Len(SCOPS_POOL[1]) :
      LET scops == SCOPS_POOL[1]
          res == generate_code_result(scops, null_at)
      IN \A k \in 1 .. Len(res.calls) :
           LET call == res.calls[k]
           IN /\ call.idx = k - 1
              /\ call.scop # NullScop =>
                   /\ call.next = call.idx + 1
                   /\ res.out[k].scop = scops[k].scop.name
              /\ call.scop = NullScop =>
                   /\ call.next = call.idx
                   /\ k = Len(res.calls)
                   /\ res.r = -1

\* C26 (as stated): the k-th call reads the k-th record and every call
\* advances the index by exactly one, the call on a NULL SCoP included.
C26_IndexAdvancesOnEveryPath ==
  ~IsNull(Scop(0).current_node) =>
    \A null_at \in 0 .. Len(SCOPS_POOL[1]) :
      LET res == generate_code_result(SCOPS_POOL[1], null_at)
      IN \A k \in 1 .. Len(res.calls) :
           /\ res.calls[k].idx = k - 1
           /\ res.calls[k].next = res.calls[k].idx + 1

\* A session of two SCoPs, the first one transformed, in which the
\* traversal makes one call that emits code and then one on a NULL SCoP.
C26_Witness ==
  /\ Len(SCOPS_POOL[1]) = 2
  /\ ~IsNull(Scop(0).current_node)
  /\ Scop(0).modified
  /\ LET res == generate_code_result(SCOPS_POOL[1], 2)
     IN /\ Len(res.calls) = 2
        /\ res.calls[1].next = 1
        /\ res.out[1].kind = "codegen"
        /\ res.calls[2].scop = NullScop

----------------------------------------------------------------------------
(* rollback with no transformation in flight *)

\* C27: rollback called on a record with no transformation in flight (its
\* scratch slot is empty, as right after init_scops, or rollback has just
\* been called on it) leaves the current cursor valid and equal to what it
\* was before the call; a second rollback in a row does not re-install the
\* transformation the first one undid.
C27_RollbackIdleKeepsCursor ==
  \A i \in ScopIdx :
    LET si == Scop(i)
        once == rollback_result(si).si
        twice == rollback_result(once).si
    IN ~IsNull(si.current_node) =>
         /\ IsNull(si.tmp_node) =>
              /\ ~IsNull(once.current_node)
              /\ once.current_node = si.current_node
         /\ ~IsNull(once.current_node) =>
              /\ ~IsNull(twice.current_node)
              /\ twice.current_node = once.current_node
====
